---------------------------- MODULE Spec2Model ----------------------------
(***************************************************************************)
(* Model of the Quant Engine of Alpha-Pulse (backend/app/quant/worker_b.py) *)
(* together with the raw-row upsert of the ingestion step                  *)
(* (backend/app/extraction/process_excel.py).                              *)
(*                                                                         *)
(* Units.  Python floats are modelled by exact fixed-point integers:       *)
(*   yields (percent)        in ticks of 0.0001  (14.5 %  -> 145000)       *)
(*   prices                  in cents            (96.5    -> 9650)         *)
(*   2-decimal quantities    in hundredths       (real_yield, durations,   *)
(*                                                volume_avg_30d, slope)   *)
(*   volumes, days           as plain integers                             *)
(* round(x, n) is modelled as rounding of the exact quotient to the        *)
(* nearest unit (half away from zero); the inputs used never sit on a tie. *)
(*                                                                         *)
(* Python values.  A dict value is a record [k, v, s]: k is the Python     *)
(* type ("none", "num", "str", "bool"), v the number and s the string.     *)
(* A dict is a function from its keys to such values.                       *)
(***************************************************************************)
EXTENDS Integers, Sequences, FiniteSets, TLC

None == [k |-> "none", v |-> 0, s |-> ""]
Num(n) == [k |-> "num", v |-> n, s |-> ""]
Str(x) == [k |-> "str", v |-> 0, s |-> x]
Bool(b) == [k |-> "bool", v |-> IF b THEN 1 ELSE 0, s |-> ""]

IsNum(x) == x.k = "num"

\* Python truthiness of a value: None, 0, "" and False are falsy.
Truthy(x) ==
    CASE x.k = "none" -> FALSE
      [] x.k = "num" -> x.v # 0
      [] x.k = "str" -> x.s # ""
      [] OTHER -> x.v = 1

\* dict.get(key): the value, or None when the key is absent.
Get(d, key) == IF key \in DOMAIN d THEN d[key] ELSE None

Abs(n) == IF n < 0 THEN -n ELSE n

\* The decimal expansion of r / b (0 <= r < b) to `digits` places, by long
\* division, with the remainder kept: <<scaled quotient, remainder>>.
RECURSIVE LongDiv(_, _, _, _)
LongDiv(q, r, b, digits) ==
    IF digits = 0 THEN <<q, r>>
    ELSE LongDiv(q * 10 + ((r * 10) \div b), (r * 10) % b, b, digits - 1)

\* round(a / b, digits) in units of 10^-digits, b > 0.
RoundDiv(a, b, digits) ==
    LET m == Abs(a)
        qr == LongDiv(m \div b, m % b, b, digits)
        up == IF 2 * qr[2] >= b THEN 1 ELSE 0
        r == qr[1] + up
    IN  IF a < 0 THEN -r ELSE r

\* round(x, 2) of a quantity held in ticks of 0.0001, in hundredths.
Round2OfTicks(x) == RoundDiv(x, 100, 0)

GHANA_INFLATION_RATE == 232000
GHANA_POLICY_RATE == 290000

MATURITY_BUCKETS ==
    << <<0, 91, "91D">>, <<92, 182, "182D">>, <<183, 365, "1Y">>,
       <<366, 730, "2Y">>, <<731, 1095, "3Y">>, <<1096, 1825, "5Y">>,
       <<1826, 3650, "10Y">>, <<3651, 7300, "20Y">> >>

METRIC_KEYS ==
    << "date", "isin", "security_type",
       "ytm", "discount_yield", "bond_equivalent_yield", "real_yield", "coupon_rate",
       "volume", "turnover_ratio", "hl_spread", "liquidity_score",
       "modified_duration", "convexity", "z_spread", "corporate_spread",
       "benchmark_yield", "spread_vs_govt", "volume_avg_30d", "volume_spike_flag",
       "liquidity_flag" >>

VOLUME_SPIKE_THRESHOLD == 3

\* The spread above which a SPREAD_WIDENING alert is raised: 5.0 %, in ticks.
SPREAD_ALERT_THRESHOLD == 50000

\* The number of history rows the spike detector asks for.
HISTORY_LIMIT == 30

Range(f) == {f[x] : x \in DOMAIN f}

\* A record handed on with the keys it happens to have, which the source does
\* not do: the shape the uniform-field-set property must tell from the real one.
KeepRecordAsBuilt(record) == record

normalize_metric_record(record) ==
    [key \in Range(METRIC_KEYS) |-> Get(record, key)]

\* The loop of get_maturity_bucket from table entry i on.
\* A lookup over half-open ranges low <= days < high, which the source does not
\* use: the comparison the bucket properties must tell from the real one.
RECURSIVE BucketHalfOpen(_, _)
BucketHalfOpen(days, i) ==
    IF i > Len(MATURITY_BUCKETS) THEN "20Y+"
    ELSE IF MATURITY_BUCKETS[i][1] <= days /\ days < MATURITY_BUCKETS[i][2]
         THEN MATURITY_BUCKETS[i][3]
         ELSE BucketHalfOpen(days, i + 1)

RECURSIVE BucketFrom(_, _)
BucketFrom(days, i) ==
    IF i > Len(MATURITY_BUCKETS) THEN "20Y+"
    ELSE IF MATURITY_BUCKETS[i][1] <= days /\ days <= MATURITY_BUCKETS[i][2]
         THEN MATURITY_BUCKETS[i][3]
         ELSE BucketFrom(days, i + 1)

get_maturity_bucket(days) == BucketFrom(days, 1)


(***************************************************************************)
(* Yield, duration and liquidity calculators.  A calculator that can raise *)
(* (TypeError on a non-numeric field) has a companion ...Raises predicate. *)
(***************************************************************************)

\* calculate_tbill_yields raises when it compares a string days_to_maturity
\* with 0, or (days > 0) subtracts a string price from 100.
TbillYieldsRaises(price, days) ==
    /\ Truthy(price) /\ Truthy(days)
    /\ (days.k = "str" \/ (days.v > 0 /\ price.k = "str"))

\* calculate_tbill_yields: {} when price or days is missing or days <= 0.
calculate_tbill_yields(price, days) ==
    IF ~Truthy(price) \/ ~Truthy(days) \/ days.v <= 0 THEN << >>
    ELSE LET discount == 10000 - price.v
             bey == RoundDiv(discount * 36500, price.v * days.v, 4)
         IN  [discount_yield |-> Num(RoundDiv(discount * 360, 100 * days.v, 4)),
              bond_equivalent_yield |-> Num(bey),
              ytm |-> Num(bey)]

\* calculate_bond_ytm raises on price <= 0 with a string price, and on
\* days_to_maturity <= 0 with a string days (reached only when price > 0).
BondYtmRaises(price, days) ==
    /\ Truthy(price)
    /\ \/ price.k = "str"
       \/ price.v > 0 /\ Truthy(days) /\ days.k = "str"

\* calculate_bond_ytm; coupon_rate in hundredths of a percent or None.
calculate_bond_ytm(price, coupon_rate, days) ==
    IF ~Truthy(price) \/ price.v <= 0 \/ ~Truthy(days) \/ days.v <= 0 THEN None
    ELSE LET coupon == IF Truthy(coupon_rate) THEN coupon_rate.v ELSE 0
         IN  Num(RoundDiv(200 * (coupon * days.v + 365 * (10000 - price.v)),
                          days.v * (10000 + price.v), 4))

\* extract_coupon_from_description.  The rows of this model carry no
\* security_description (the column is NULL), for which the code returns None.
extract_coupon_from_description(desc) == None

\* calculate_modified_duration for a zero or absent coupon (the only case the
\* rows of this model reach): round(years, 2) in hundredths, years = days/365.
calculate_modified_duration(ytm, days, coupon_rate) ==
    IF ~Truthy(ytm) \/ ytm.v <= 0 \/ ~Truthy(days) \/ days.v <= 0 THEN None
    ELSE Num(RoundDiv(days.v, 365, 2))

LiquidityScoreRaises(volume) == volume.k = "str"

calculate_liquidity_score(volume, hl_spread) ==
    IF volume.k = "none" THEN Str("LOW")
    ELSE IF volume.v > 10000000 THEN Str("HIGH")
    ELSE IF volume.v > 1000000 THEN Str("MEDIUM")
    ELSE Str("LOW")

\* hl_spread = round(abs(high - low), 4) when both are truthy, else None.
HlSpreadRaises(high_y, low_y) ==
    Truthy(high_y) /\ Truthy(low_y) /\ (high_y.k = "str" \/ low_y.k = "str")

HlSpread(high_y, low_y) ==
    IF Truthy(high_y) /\ Truthy(low_y) THEN Num(Abs(high_y.v - low_y.v)) ELSE None

\* real_yield = round(ytm - GHANA_INFLATION_RATE, 2) if ytm else None.
RealYield(ytm) ==
    IF Truthy(ytm) THEN Num(Round2OfTicks(ytm.v - GHANA_INFLATION_RATE)) ELSE None


(***************************************************************************)
(* Per-type metric builders.  A raw row is a dict of its columns; a column *)
(* the model leaves out is NULL and reads as None.  Each ...Row operator is *)
(* the body of the builder's loop for one row: the one-element list of the *)
(* metric it appends, or the empty list when the row raised and the except *)
(* clause skipped it.                                                       *)
(***************************************************************************)

\* `days / 365` raises on a string.
YearsRaises(days) == Truthy(days) /\ days.k = "str"

\* `ytm - GHANA_INFLATION_RATE` raises on a string.
RealYieldRaises(ytm) == Truthy(ytm) /\ ytm.k = "str"

GogYtm(r) ==
    LET price == Get(r, "closing_price")
        days == Get(r, "days_to_maturity")
        coupon == extract_coupon_from_description(Get(r, "security_description"))
        ytm == IF Truthy(price) /\ Truthy(days)
               THEN calculate_bond_ytm(price, coupon, days)
               ELSE Get(r, "closing_yield")
    IN  IF ~Truthy(ytm) THEN Get(r, "closing_yield") ELSE ytm

GogRowRaises(r) ==
    LET price == Get(r, "closing_price")
        days == Get(r, "days_to_maturity")
    IN  \/ Truthy(price) /\ Truthy(days) /\ BondYtmRaises(price, days)
        \/ RealYieldRaises(GogYtm(r))
        \/ HlSpreadRaises(Get(r, "day_high_yield"), Get(r, "day_low_yield"))
        \/ YearsRaises(days)
        \/ "isin" \notin DOMAIN r
        \/ LiquidityScoreRaises(Get(r, "volume"))

GogRow(r, trade_date, security_type) ==
    IF GogRowRaises(r) THEN << >>
    ELSE LET days == Get(r, "days_to_maturity")
             coupon == extract_coupon_from_description(Get(r, "security_description"))
             ytm == GogYtm(r)
             volume == Get(r, "volume")
         IN  << [date |-> Num(trade_date),
                 isin |-> r["isin"],
                 security_type |-> Str(security_type),
                 ytm |-> ytm,
                 real_yield |-> RealYield(ytm),
                 coupon_rate |-> coupon,
                 volume |-> volume,
                 hl_spread |-> HlSpread(Get(r, "day_high_yield"), Get(r, "day_low_yield")),
                 liquidity_score |-> calculate_liquidity_score(volume,
                                         HlSpread(Get(r, "day_high_yield"), Get(r, "day_low_yield"))),
                 modified_duration |-> calculate_modified_duration(ytm, days, coupon)] >>

TbillRowRaises(r) ==
    LET price == Get(r, "closing_price")
        days == Get(r, "days_to_maturity")
    IN  \/ TbillYieldsRaises(price, days)
        \/ HlSpreadRaises(Get(r, "day_high_yield"), Get(r, "day_low_yield"))
        \/ YearsRaises(days)
        \/ "isin" \notin DOMAIN r
        \/ LiquidityScoreRaises(Get(r, "volume_traded"))

TbillRow(r, trade_date) ==
    IF TbillRowRaises(r) THEN << >>
    ELSE LET price == Get(r, "closing_price")
             days == Get(r, "days_to_maturity")
             yields == IF Truthy(price) /\ Truthy(days)
                       THEN calculate_tbill_yields(price, days) ELSE << >>
             volume == Get(r, "volume_traded")
         IN  << [date |-> Num(trade_date),
                 isin |-> r["isin"],
                 security_type |-> Str("TBILL"),
                 ytm |-> Get(yields, "ytm"),
                 discount_yield |-> Get(yields, "discount_yield"),
                 bond_equivalent_yield |-> Get(yields, "bond_equivalent_yield"),
                 real_yield |-> RealYield(Get(yields, "ytm")),
                 volume |-> volume,
                 hl_spread |-> HlSpread(Get(r, "day_high_yield"), Get(r, "day_low_yield")),
                 liquidity_score |-> calculate_liquidity_score(volume,
                                         HlSpread(Get(r, "day_high_yield"), Get(r, "day_low_yield"))),
                 modified_duration |->
                     IF Truthy(days) THEN Num(RoundDiv(days.v, 365, 2)) ELSE None] >>

CorporateYtm(r) ==
    LET price == Get(r, "closing_price")
        days == Get(r, "days_to_maturity")
        coupon == extract_coupon_from_description(Get(r, "security_description"))
        ytm == IF Truthy(price) /\ Truthy(days)
               THEN calculate_bond_ytm(price, coupon, days)
               ELSE None
    IN  IF ~Truthy(ytm) THEN Get(r, "day_high_yield") ELSE ytm

CorporateRowRaises(r) ==
    LET price == Get(r, "closing_price")
        days == Get(r, "days_to_maturity")
    IN  \/ Truthy(price) /\ Truthy(days) /\ BondYtmRaises(price, days)
        \/ RealYieldRaises(CorporateYtm(r))
        \/ YearsRaises(days)
        \/ "isin" \notin DOMAIN r
        \/ LiquidityScoreRaises(Get(r, "volume_traded"))

CorporateRow(r, trade_date) ==
    IF CorporateRowRaises(r) THEN << >>
    ELSE LET days == Get(r, "days_to_maturity")
             coupon == extract_coupon_from_description(Get(r, "security_description"))
             ytm == CorporateYtm(r)
             volume == Get(r, "volume_traded")
         IN  << [date |-> Num(trade_date),
                 isin |-> r["isin"],
                 security_type |-> Str("CORPORATE"),
                 ytm |-> ytm,
                 real_yield |-> RealYield(ytm),
                 coupon_rate |-> coupon,
                 volume |-> volume,
                 liquidity_score |-> calculate_liquidity_score(volume, None),
                 modified_duration |-> calculate_modified_duration(ytm, days, coupon)] >>

\* A loop that gives up on the batch at its first failing record, which the
\* source does not do: the loop the skip-and-continue property must tell from
\* the real one.
RECURSIVE GogLoopAbort(_, _, _, _)
GogLoopAbort(records, i, trade_date, security_type) ==
    IF i > Len(records) \/ GogRowRaises(records[i]) THEN << >>
    ELSE GogRow(records[i], trade_date, security_type)
         \o GogLoopAbort(records, i + 1, trade_date, security_type)

\* The builders' loops over the fetched records, from record i on.
RECURSIVE GogLoop(_, _, _, _)
GogLoop(records, i, trade_date, security_type) ==
    IF i > Len(records) THEN << >>
    ELSE GogRow(records[i], trade_date, security_type)
         \o GogLoop(records, i + 1, trade_date, security_type)

RECURSIVE TbillLoop(_, _, _)
TbillLoop(records, i, trade_date) ==
    IF i > Len(records) THEN << >>
    ELSE TbillRow(records[i], trade_date) \o TbillLoop(records, i + 1, trade_date)

RECURSIVE CorporateLoop(_, _, _)
CorporateLoop(records, i, trade_date) ==
    IF i > Len(records) THEN << >>
    ELSE CorporateRow(records[i], trade_date) \o CorporateLoop(records, i + 1, trade_date)


(***************************************************************************)
(* The store.  A table is the set of its rows; the raw tables and           *)
(* security_metrics are unique on (date, isin) by their upsert key.  A      *)
(* query without ORDER BY returns the rows in one fixed order (by date,     *)
(* then by ISIN), the same every time the table is unchanged.               *)
(***************************************************************************)
VARIABLES
    raw,                  \* the four raw (bronze) tables, by table name
    security_metrics,     \* silver tables
    yield_curve_points,
    daily_market_summary,
    market_alerts,        \* append-only, in insertion order
    pc,                   \* position in run_quant_engine, "idle" between runs
    trade_date,           \* argument of the current or last run
    all_metrics,          \* locals of run_quant_engine
    curve_points,
    spread_alerts,
    volume_alerts,
    summary,
    outcome,              \* how the last run ended: "none", "complete", "exception"
    failed,               \* the external call that raised in the last run, or "none"
    query_failed,         \* the metrics (indices) whose history query raised
    calls,                \* the tables the current or last run issued a write call to
    snap,                 \* the last completed run: its date, the rows it left, ...
    n_runs,               \* runs started
    n_ingest,             \* ingestion upserts done
    probe,                \* argument and result of the function under test
    probe_out

vars ==
    << raw, security_metrics, yield_curve_points, daily_market_summary,
       market_alerts, pc, trade_date, all_metrics, curve_points, spread_alerts,
       volume_alerts, summary, outcome, failed, query_failed, calls, snap,
       n_runs, n_ingest, probe, probe_out >>

NEW_GOG == "new_gog_notes_and_bonds"
OLD_GOG == "old_gog_notes_and_bonds"
TBILLS == "treasury_bills"
CORPORATE == "corporate"
Tables == {NEW_GOG, OLD_GOG, TBILLS, CORPORATE}

\* The ISINs of the model, in the order the store returns them.
IsinSeq == <<"X", "Y">>
ISINs == Range(IsinSeq)
IsinRank(i) == CHOOSE n \in DOMAIN IsinSeq : IsinSeq[n] = i

\* The dates of the model: an earlier trading day, the day being run, and a
\* later trading day whose file may have been ingested already.
DateSeq == <<1, 2, 3>>
PriorDate == DateSeq[1]
TradeDate == DateSeq[2]
LaterDate == DateSeq[3]

\* Position of a row in the store's fixed order.
RowRank(r) == r["date"].v * (Len(IsinSeq) + 1) + IsinRank(r["isin"].s)

\* The rows of a set in the store's order.
RECURSIVE InOrder(_)
InOrder(rows) ==
    IF rows = {} THEN << >>
    ELSE LET first == CHOOSE r \in rows : \A q \in rows : RowRank(r) <= RowRank(q)
         IN  <<first>> \o InOrder(rows \ {first})

\* table(t).select("*").eq("date", d): response.data
SelectByDate(table, d) == InOrder({r \in table : r["date"] = Num(d)})

\* table(t).select(...) without a filter
SelectAll(table) == InOrder(table)

\* The dict {r["isin"]: r.get(column) for r in rows}: a later row replaces an
\* earlier one of the same ISIN.  Kept as the list of rows, read from the end.
RECURSIVE DictGet(_, _, _, _)
DictGet(rows, i, isin, column) ==
    IF i = 0 THEN None
    ELSE IF rows[i]["isin"] = isin THEN Get(rows[i], column)
         ELSE DictGet(rows, i - 1, isin, column)

\* upsert(records, on_conflict=key): each record in turn replaces the row with
\* its key or is added (last writer wins).
RECURSIVE Upsert(_, _, _, _)
Upsert(table, records, i, keys) ==
    IF i > Len(records) THEN table
    ELSE LET rec == records[i]
             same(r) == \A key \in keys : r[key] = rec[key]
         IN  Upsert({r \in table : ~same(r)} \cup {rec}, records, i + 1, keys)

METRIC_CONFLICT == {"date", "isin"}
CURVE_CONFLICT == {"date", "maturity_bucket", "curve_type"}
SUMMARY_CONFLICT == {"date"}


(***************************************************************************)
(* Curve, spreads, spikes and summary, as functions of the tables they read *)
(***************************************************************************)
RECURSIVE SumSeq(_, _)
SumSeq(q, i) == IF i > Len(q) THEN 0 ELSE q[i] + SumSeq(q, i + 1)

\* int(x / n): truncation toward zero.
TruncDiv(x, n) == IF x < 0 THEN -((-x) \div n) ELSE x \div n

\* m with m[key] = value set, as `m[key] = value` does to a dict.
SetKey(m, key, value) == (key :> value) @@ m

\* The three date queries of build_yield_curve, concatenated (gog_data).
CurveDaysRows(rawTables, d) ==
    SelectByDate(rawTables[NEW_GOG], d) \o SelectByDate(rawTables[OLD_GOG], d)
        \o SelectByDate(rawTables[TBILLS], d)

\* isin_to_days.get(m["isin"]) of a metric the curve loop looks at, else None.
CurveDays(rows, m) ==
    IF m["security_type"].s \in {"GOG_BOND", "TBILL"} /\ Truthy(Get(m, "ytm"))
    THEN DictGet(rows, Len(rows), m["isin"], "days_to_maturity")
    ELSE None

\* get_maturity_bucket(days) compares a string with an int: TypeError.
BucketRaises(days) == Truthy(days) /\ days.k = "str"

BuildYieldCurveRaises(rawTables, d, metrics) ==
    LET rows == CurveDaysRows(rawTables, d)
    IN  \E i \in DOMAIN metrics : BucketRaises(CurveDays(rows, metrics[i]))

\* The (bucket, days, ytm) entries in the order the loop appends them.
RECURSIVE CurveItems(_, _, _)
CurveItems(rows, metrics, i) ==
    IF i > Len(metrics) THEN << >>
    ELSE LET days == CurveDays(rows, metrics[i])
         IN  (IF Truthy(days)
              THEN << [bucket |-> get_maturity_bucket(days.v), days |-> days.v,
                       ytm |-> metrics[i]["ytm"].v] >>
              ELSE << >>) \o CurveItems(rows, metrics, i + 1)

\* The keys of bucket_yields in insertion order.
RECURSIVE BucketOrder(_, _, _)
BucketOrder(items, i, seen) ==
    IF i > Len(items) THEN << >>
    ELSE IF items[i].bucket \in seen THEN BucketOrder(items, i + 1, seen)
         ELSE <<items[i].bucket>> \o BucketOrder(items, i + 1, seen \cup {items[i].bucket})

CurvePoint(d, bucket, items) ==
    LET mine == SelectSeq(items, LAMBDA it : it.bucket = bucket)
        n == Len(mine)
        sum_days == SumSeq([j \in 1..n |-> mine[j].days], 1)
        sum_yield == SumSeq([j \in 1..n |-> mine[j].ytm], 1)
    IN  [date |-> Num(d),
         maturity_days |-> Num(TruncDiv(sum_days, n)),
         maturity_bucket |-> Str(bucket),
         yield |-> Num(RoundDiv(sum_yield, n, 0)),
         curve_type |-> Str("GOG")]

build_yield_curve(rawTables, d, metrics) ==
    LET items == CurveItems(CurveDaysRows(rawTables, d), metrics, 1)
        order == BucketOrder(items, 1, {})
    IN  [j \in 1..Len(order) |-> CurvePoint(d, order[j], items)]

\* bucket_to_yield.get(bucket): the yield of the last point of that bucket.
RECURSIVE BucketToYield(_, _, _)
BucketToYield(points, i, bucket) ==
    IF i = 0 THEN None
    ELSE IF points[i]["maturity_bucket"].s = bucket THEN points[i]["yield"]
         ELSE BucketToYield(points, i - 1, bucket)

\* isin_to_days.get(m["isin"]) of a metric the spread loop looks at, else None.
\* The corporate query has no date filter: the row the dict keeps for an ISIN
\* is the last one of the whole table.
SpreadDays(rows, m) ==
    IF m["security_type"].s = "CORPORATE" /\ Truthy(Get(m, "ytm"))
    THEN DictGet(rows, Len(rows), m["isin"], "days_to_maturity")
    ELSE None

SpreadsRaise(rawTables, metrics) ==
    LET rows == SelectAll(rawTables[CORPORATE])
    IN  \E i \in DOMAIN metrics : BucketRaises(SpreadDays(rows, metrics[i]))

\* The benchmark the loop finds for m, None when it looks none up.
Benchmark(rows, points, m) ==
    LET days == SpreadDays(rows, m)
    IN  IF Truthy(days)
        THEN BucketToYield(points, Len(points), get_maturity_bucket(days.v))
        ELSE None

\* m after the loop body of calculate_corporate_spreads.
SpreadMetric(rows, points, m) ==
    LET benchmark == Benchmark(rows, points, m)
    IN  IF Truthy(benchmark)
        THEN SetKey(SetKey(m, "benchmark_yield", benchmark),
                    "spread_vs_govt", Num(m["ytm"].v - benchmark.v))
        ELSE m

\* The threshold test with >=, which the source does not use: the comparison
\* the strict-threshold property must tell from the real one.
SpreadAlertDueInclusive(spread) == spread >= SPREAD_ALERT_THRESHOLD

\* `if spread > 5.0`
SpreadAlertDue(spread) == spread > SPREAD_ALERT_THRESHOLD

\* The alerts the loop body appends for m: none or one.
SpreadAlert(rows, points, m) ==
    LET benchmark == Benchmark(rows, points, m)
        spread == m["ytm"].v - benchmark.v
    IN  IF Truthy(benchmark) /\ SpreadAlertDue(spread)
        THEN << [date |-> m["date"],
                 isin |-> m["isin"],
                 alert_type |-> Str("SPREAD_WIDENING"),
                 alert_message |-> <<"Corporate spread", Round2OfTicks(spread),
                                     Round2OfTicks(benchmark.v), 0>>,
                 severity |-> Str("INFO")] >>
        ELSE << >>

RECURSIVE SpreadAlerts(_, _, _, _)
SpreadAlerts(rows, points, metrics, i) ==
    IF i > Len(metrics) THEN << >>
    ELSE SpreadAlert(rows, points, metrics[i]) \o SpreadAlerts(rows, points, metrics, i + 1)

\* calculate_corporate_spreads: the metrics as mutated, and the alerts.
calculate_corporate_spreads(rawTables, metrics, points) ==
    LET rows == SelectAll(rawTables[CORPORATE])
    IN  [metrics |-> [i \in DOMAIN metrics |-> SpreadMetric(rows, points, metrics[i])],
         alerts |-> SpreadAlerts(rows, points, metrics, 1)]


\* The history query of detect_volume_spikes: the rows of the ISIN with another
\* date, newest first, at most HISTORY_LIMIT of them.
RECURSIVE NewestFirst(_, _)
NewestFirst(rows, limit) ==
    IF rows = {} \/ limit = 0 THEN << >>
    ELSE LET newest == CHOOSE r \in rows : \A q \in rows : q["date"].v <= r["date"].v
         IN  <<newest>> \o NewestFirst(rows \ {newest}, limit - 1)

\* A history query without .neq("date", trade_date), which the source does not
\* issue: the filter the idempotence property must tell from the real one.
HistoryFilterAllDates(r, isin, d) == r["isin"] = isin

HistoryFilter(r, isin, d) == r["isin"] = isin /\ r["date"] # Num(d)

HistoryRows(metricsTable, isin, d) ==
    NewestFirst({r \in metricsTable : HistoryFilter(r, isin, d)}, HISTORY_LIMIT)

\* historical_volumes = [r["volume"] for r in response.data if r.get("volume")]
HistoricalVolumes(metricsTable, isin, d) ==
    LET rows == HistoryRows(metricsTable, isin, d)
        kept == SelectSeq(rows, LAMBDA r : Truthy(Get(r, "volume")))
    IN  [j \in 1..Len(kept) |-> kept[j]["volume"].v]

\* `not today_volume or today_volume <= 0`
IsStale(m) == ~Truthy(Get(m, "volume")) \/ Get(m, "volume").v <= 0

\* avg_volume > 0 and today_volume >= avg_volume * VOLUME_SPIKE_THRESHOLD,
\* with avg_volume = total / n.
IsSpike(today_volume, total, n) ==
    total > 0 /\ today_volume * n >= total * VOLUME_SPIKE_THRESHOLD

\* m after the loop body of detect_volume_spikes; query_raises: the history
\* query of this metric raised and the except clause logged it.
SpikeMetric(metricsTable, d, m, query_raises) ==
    IF IsStale(m) THEN SetKey(m, "liquidity_flag", Str("STALE"))
    ELSE LET active == SetKey(m, "liquidity_flag", Str("ACTIVE"))
             vols == HistoricalVolumes(metricsTable, m["isin"], d)
             n == Len(vols)
             total == SumSeq(vols, 1)
         IN  IF query_raises \/ n = 0 THEN active
             ELSE SetKey(SetKey(active, "volume_avg_30d", Num(RoundDiv(total, n, 2))),
                         "volume_spike_flag", Bool(IsSpike(m["volume"].v, total, n)))

\* The alerts the loop body appends for m: none or one.
SpikeAlert(metricsTable, d, m, query_raises) ==
    LET vols == HistoricalVolumes(metricsTable, m["isin"], d)
        n == Len(vols)
        total == SumSeq(vols, 1)
    IN  IF ~IsStale(m) /\ ~query_raises /\ n > 0 /\ IsSpike(m["volume"].v, total, n)
        THEN << [date |-> Num(d),
                 isin |-> m["isin"],
                 alert_type |-> Str("VOLUME_SPIKE"),
                 alert_message |-> <<"Volume spike", m["volume"].v, RoundDiv(total, n, 0),
                                     RoundDiv(m["volume"].v * n, total, 1)>>,
                 severity |-> Str("WARNING")] >>
        ELSE << >>

\* A loop that ends at the first history query that raises (the try around the
\* whole loop), which the source does not do: the loop the continue-after-
\* failure property must tell from the real one.
detect_volume_spikes_break(metricsTable, d, metrics, raising) ==
    [metrics |-> [i \in DOMAIN metrics |->
                    IF \E j \in raising : j < i THEN metrics[i]
                    ELSE SpikeMetric(metricsTable, d, metrics[i], i \in raising)],
     alerts |-> << >>]

RECURSIVE SpikeAlerts(_, _, _, _, _)
SpikeAlerts(metricsTable, d, metrics, raising, i) ==
    IF i > Len(metrics) THEN << >>
    ELSE SpikeAlert(metricsTable, d, metrics[i], i \in raising)
         \o SpikeAlerts(metricsTable, d, metrics, raising, i + 1)

\* detect_volume_spikes: the metrics as mutated, and the alerts.  raising: the
\* positions in all_metrics whose history query raises.
detect_volume_spikes(metricsTable, d, metrics, raising) ==
    [metrics |-> [i \in DOMAIN metrics |->
                    SpikeMetric(metricsTable, d, metrics[i], i \in raising)],
     alerts |-> SpikeAlerts(metricsTable, d, metrics, raising, 1)]

\* sorted(curve_points, key=maturity_days)[0] and [-1]: the sort is stable.
ShortPoint(points) ==
    LET i == CHOOSE i \in DOMAIN points :
                 \A j \in DOMAIN points :
                     \/ points[i]["maturity_days"].v < points[j]["maturity_days"].v
                     \/ points[i]["maturity_days"].v = points[j]["maturity_days"].v /\ i <= j
    IN  points[i]

LongPoint(points) ==
    LET i == CHOOSE i \in DOMAIN points :
                 \A j \in DOMAIN points :
                     \/ points[i]["maturity_days"].v > points[j]["maturity_days"].v
                     \/ points[i]["maturity_days"].v = points[j]["maturity_days"].v /\ i >= j
    IN  points[i]

\* curve_slope, in hundredths: round(long_yield - short_yield, 2), 0 below two points.
CurveSlope(points) ==
    IF Len(points) >= 2
    THEN Round2OfTicks(LongPoint(points)["yield"].v - ShortPoint(points)["yield"].v)
    ELSE 0

CurveShape(points) ==
    IF Len(points) >= 2
    THEN IF CurveSlope(points) < -50 THEN "INVERTED"
         ELSE IF CurveSlope(points) < 50 THEN "FLAT"
         ELSE "NORMAL"
    ELSE "NORMAL"

\* next((p["yield"] for p in curve_points if p["maturity_bucket"] == bucket), None)
RECURSIVE FirstYield(_, _, _)
FirstYield(points, i, bucket) ==
    IF i > Len(points) THEN None
    ELSE IF points[i]["maturity_bucket"].s = bucket THEN points[i]["yield"]
         ELSE FirstYield(points, i + 1, bucket)

\* sum(m.get("volume") or 0 for m in all_metrics if m["security_type"] == type)
TotalVolume(metrics, type) ==
    SumSeq([i \in DOMAIN metrics |->
              IF metrics[i]["security_type"].s = type /\ Truthy(Get(metrics[i], "volume"))
              THEN metrics[i]["volume"].v ELSE 0], 1)

VolumeOrZero(m) == IF Truthy(Get(m, "volume")) THEN m["volume"].v ELSE 0

\* max(all_metrics, key=volume or 0, default={}).get("isin"): the first maximum.
MostActiveIsin(metrics) ==
    IF Len(metrics) = 0 THEN None
    ELSE LET i == CHOOSE i \in DOMAIN metrics :
                      \A j \in DOMAIN metrics :
                          \/ VolumeOrZero(metrics[i]) > VolumeOrZero(metrics[j])
                          \/ VolumeOrZero(metrics[i]) = VolumeOrZero(metrics[j]) /\ i <= j
         IN  metrics[i]["isin"]

build_daily_summary(d, metrics, points) ==
    LET yield_91d == FirstYield(points, 1, "91D")
        yield_10y == FirstYield(points, 1, "10Y")
    IN  [date |-> Num(d),
         curve_shape |-> Str(CurveShape(points)),
         curve_slope |-> Num(CurveSlope(points)),
         spread_91d_10y |->
             IF Truthy(yield_91d) /\ Truthy(yield_10y)
             THEN Num(Round2OfTicks(yield_10y.v - yield_91d.v)) ELSE None,
         total_volume_gog |-> Num(TotalVolume(metrics, "GOG_BOND")),
         total_volume_tbill |-> Num(TotalVolume(metrics, "TBILL")),
         total_volume_corporate |-> Num(TotalVolume(metrics, "CORPORATE")),
         most_active_isin |-> MostActiveIsin(metrics),
         inflation_rate |-> Num(GHANA_INFLATION_RATE),
         policy_rate |-> Num(GHANA_POLICY_RATE)]


(***************************************************************************)
(* The builders with their queries, and a whole run as one function (used   *)
(* for the state the store is in before the model starts).                  *)
(***************************************************************************)
process_gog_bonds(rawTables, d, table_name, security_type) ==
    GogLoop(SelectByDate(rawTables[table_name], d), 1, d, security_type)

process_tbills(rawTables, d) == TbillLoop(SelectByDate(rawTables[TBILLS], d), 1, d)

process_corporate(rawTables, d) ==
    CorporateLoop(SelectByDate(rawTables[CORPORATE], d), 1, d)

\* normalized_metrics = [normalize_metric_record(m) for m in all_metrics]
NormalizedMetrics(metrics) ==
    [i \in DOMAIN metrics |-> normalize_metric_record(metrics[i])]

\* An insert that leaves a stored row alone on a key conflict (ON CONFLICT DO
\* NOTHING), which the source does not use: the write the overwrite property
\* must tell from the real one.
InsertMissingMetrics(table, metrics) ==
    table \cup {r \in Range(NormalizedMetrics(metrics)) :
                   \A q \in table : \E key \in METRIC_CONFLICT : q[key] # r[key]}

UpsertMetricsInto(table, metrics) ==
    IF Len(metrics) = 0 THEN table
    ELSE Upsert(table, NormalizedMetrics(metrics), 1, METRIC_CONFLICT)

UpsertCurveInto(table, points) ==
    IF Len(points) = 0 THEN table ELSE Upsert(table, points, 1, CURVE_CONFLICT)

UpsertSummaryInto(table, row) == Upsert(table, <<row>>, 1, SUMMARY_CONFLICT)

\* The alerts in the other order, which the source does not use: the order the
\* alert-order property must tell from the real one.
VolumeAlertsFirst(spread, volume) == volume \o spread

\* all_alerts = spread_alerts + volume_alerts
AllAlerts(spread, volume) == spread \o volume

\* The silver tables after run_quant_engine(d) ran to its end on a store where
\* no call raises.
RunWrites(silver, d, points, alerts, spikes) ==
    [metrics |-> UpsertMetricsInto(silver.metrics, spikes.metrics),
     curve |-> UpsertCurveInto(silver.curve, points),
     summary |-> UpsertSummaryInto(silver.summary,
                                   build_daily_summary(d, spikes.metrics, points)),
     alerts |-> silver.alerts \o AllAlerts(alerts, spikes.alerts)]

RunSpikes(silver, d, points, spreads) ==
    RunWrites(silver, d, points, spreads.alerts,
              detect_volume_spikes(silver.metrics, d, spreads.metrics, {}))

RunCurve(rawTables, silver, d, built, points) ==
    RunSpikes(silver, d, points, calculate_corporate_spreads(rawTables, built, points))

RunBuilt(rawTables, silver, d, built) ==
    RunCurve(rawTables, silver, d, built, build_yield_curve(rawTables, d, built))

RunToEnd(rawTables, silver, d) ==
    RunBuilt(rawTables, silver, d,
             process_gog_bonds(rawTables, d, NEW_GOG, "GOG_BOND")
             \o process_gog_bonds(rawTables, d, OLD_GOG, "GOG_BOND")
             \o process_tbills(rawTables, d)
             \o process_corporate(rawTables, d))

EmptySilver == [metrics |-> {}, curve |-> {}, summary |-> {}, alerts |-> << >>]

(***************************************************************************)
(* The rows of the model.                                                   *)
(***************************************************************************)
\* The columns of a row: its values, its date and its ISIN.
RawRow(values, d, isin) == ("date" :> Num(d)) @@ ("isin" :> Str(isin)) @@ values

\* Sheet rows of the two GOG tables: a note quoted by yield, a note quoted by
\* price, a row whose days cell holds text, and a note on its maturity day
\* (0 days left) that did not trade.
GogValues ==
    { [closing_price |-> None, closing_yield |-> Num(145000),
       days_to_maturity |-> Num(365), volume |-> Num(3000000)],
      [closing_price |-> None, closing_yield |-> Num(150000),
       days_to_maturity |-> Num(0), volume |-> Num(0)],
      [closing_price |-> Num(9650), closing_yield |-> None,
       days_to_maturity |-> Num(91), volume |-> Num(1000000)],
      [closing_price |-> None, closing_yield |-> Num(145000),
       days_to_maturity |-> Str("n/a"), volume |-> Num(3000000)] }

\* Sheet rows of treasury_bills: a traded bill and a row with a text price.
TbillValues ==
    { [closing_price |-> Num(9650), days_to_maturity |-> Num(91),
       volume_traded |-> Num(2000000)],
      [closing_price |-> Str("n/a"), days_to_maturity |-> Num(91),
       volume_traded |-> None] }

\* Sheet rows of corporate: spreads of 5.5 and of exactly 5.0 over 14.5.
CorporateValues ==
    { [closing_price |-> None, day_high_yield |-> Num(200000),
       days_to_maturity |-> Num(365), volume_traded |-> Num(1000000)],
      [closing_price |-> None, day_high_yield |-> Num(195000),
       days_to_maturity |-> Num(365), volume_traded |-> None] }

\* The ISINs a sheet may list: a GOG note may be listed on both GOG sheets.
IsinsOf(t) ==
    CASE t = NEW_GOG -> {"X", "Y"}
      [] t = OLD_GOG -> {"X"}
      [] OTHER -> {"Y"}

ValuesOf(t) ==
    CASE t = TBILLS -> TbillValues
      [] t = CORPORATE -> CorporateValues
      [] OTHER -> GogValues

\* Volumes traded on the earlier day, the history of the spike detector; 0:
\* listed but not traded.
PriorVolumes == {0, 1000000, 1000001}

EmptyRaw == [t \in Tables |-> {}]

\* The corporate bond as the sheet of the later day lists it, 91 days from
\* maturity by then.
LaterCorporateRow ==
    RawRow([closing_price |-> None, day_high_yield |-> Num(200000),
            days_to_maturity |-> Num(91), volume_traded |-> Num(1000000)],
           LaterDate, "Y")

\* The raw tables before the model starts: nothing, or the GOG notes traded
\* on the earlier day, or the corporate bond of the later day.
PriorRaws ==
    {EmptyRaw, [EmptyRaw EXCEPT ![CORPORATE] = {LaterCorporateRow}]} \cup
    { [EmptyRaw EXCEPT ![NEW_GOG] =
          {RawRow([closing_price |-> None, closing_yield |-> Num(145000),
                   days_to_maturity |-> Num(366), volume |-> Num(v)],
                  PriorDate, isin) : isin \in ISINs}] : v \in PriorVolumes }

\* Bounds of the model.
MaxRuns == 2
MaxIngest == 2
MaxDays == 7400


(***************************************************************************)
(* State machine: the ingestion upsert and the steps of run_quant_engine.   *)
(* Ingestion and the engine are separate batch programs run one after the   *)
(* other, so a raw table changes only between runs.                         *)
(***************************************************************************)
silver_vars == <<security_metrics, yield_curve_points, daily_market_summary, market_alerts>>
local_vars == <<all_metrics, curve_points, spread_alerts, volume_alerts, summary>>
probe_vars == <<probe, probe_out>>
count_vars == <<n_runs, n_ingest>>

Silver ==
    [metrics |-> security_metrics, curve |-> yield_curve_points,
     summary |-> daily_market_summary, alerts |-> market_alerts]

\* The silver rows of date d (alerts apart).
DerivedRows(metricsTable, curveTable, summaryTable, d) ==
    [metrics |-> {r \in metricsTable : r["date"] = Num(d)},
     curve |-> {r \in curveTable : r["date"] = Num(d)},
     summary |-> {r \in summaryTable : r["date"] = Num(d)}]

\* snap: the date of the last completed run (0: none yet), whether the raw
\* tables are unchanged since, how many completed runs in a row had that date
\* and those inputs (times), whether no history query raised in any of them
\* (clean), the length of market_alerts before the first of them (base), and
\* the silver rows of the date as the last one left them.
NoSnap ==
    [date |-> 0, unchanged |-> FALSE, clean |-> FALSE, times |-> 0, base |-> 0,
     rows |-> DerivedRows({}, {}, {}, 0)]

\* The store as the pipeline left it after the earlier day, no run in progress.
Init ==
    /\ raw \in PriorRaws
    /\ \E s0 \in {RunToEnd(raw, EmptySilver, PriorDate)} :
           /\ security_metrics = s0.metrics
           /\ yield_curve_points = s0.curve
           /\ daily_market_summary = s0.summary
           /\ market_alerts = s0.alerts
    /\ pc = "idle"
    /\ trade_date = TradeDate
    /\ all_metrics = << >>
    /\ curve_points = << >>
    /\ spread_alerts = << >>
    /\ volume_alerts = << >>
    /\ summary = << >>
    /\ outcome = "none"
    /\ failed = "none"
    /\ query_failed = {}
    /\ calls = << >>
    /\ snap = NoSnap
    /\ n_runs = 0
    /\ n_ingest = 0
    /\ probe = 0
    /\ probe_out = get_maturity_bucket(0)

\* process_sheet_data / process_corporate_sheet for a sheet of date d with one
\* row: upsert(records, on_conflict='date, isin') into the raw table.
Ingest(t, values, d, isin) ==
    /\ pc = "idle"
    /\ n_ingest < MaxIngest
    /\ raw' = [raw EXCEPT ![t] = Upsert(raw[t], <<RawRow(values, d, isin)>>, 1,
                                        METRIC_CONFLICT)]
    /\ n_ingest' = n_ingest + 1
    /\ snap' = [snap EXCEPT !.unchanged = FALSE]
    /\ UNCHANGED <<silver_vars, local_vars, probe_vars, pc, trade_date, outcome,
                   failed, query_failed, calls, n_runs>>

\* Entry of run_quant_engine(d).
StartRun(d) ==
    /\ pc = "idle"
    /\ n_runs < MaxRuns
    /\ pc' = "new_gog"
    /\ trade_date' = d
    /\ all_metrics' = << >>
    /\ curve_points' = << >>
    /\ spread_alerts' = << >>
    /\ volume_alerts' = << >>
    /\ summary' = << >>
    /\ outcome' = "running"
    /\ failed' = "none"
    /\ query_failed' = {}
    /\ calls' = << >>
    /\ n_runs' = n_runs + 1
    /\ UNCHANGED <<raw, silver_vars, probe_vars, snap, n_ingest>>

\* The silver tables, in the order run_quant_engine writes them.
WriteOrder ==
    <<"security_metrics", "yield_curve_points", "daily_market_summary", "market_alerts">>
SilverTables == Range(WriteOrder)

\* An exception leaves run_quant_engine: nothing catches it there, the run ends
\* and its locals are gone.  call: the table whose query or write call raised.
Raise(call) ==
    /\ pc' = "idle"
    /\ outcome' = "exception"
    /\ failed' = call
    /\ all_metrics' = << >>
    /\ curve_points' = << >>
    /\ spread_alerts' = << >>
    /\ volume_alerts' = << >>
    /\ summary' = << >>
    /\ calls' = IF call \in SilverTables THEN Append(calls, call) ELSE calls
    /\ UNCHANGED <<raw, silver_vars, probe_vars, count_vars, trade_date, query_failed, snap>>

\* A step that only extends all_metrics.
Built(metrics, next) ==
    /\ all_metrics' = all_metrics \o metrics
    /\ pc' = next
    /\ UNCHANGED <<raw, silver_vars, probe_vars, count_vars, calls, trade_date, curve_points,
                   spread_alerts, volume_alerts, summary, outcome, failed,
                   query_failed, snap>>

ProcessNewGog ==
    /\ pc = "new_gog"
    /\ \/ Built(process_gog_bonds(raw, trade_date, NEW_GOG, "GOG_BOND"), "old_gog")
       \/ Raise(NEW_GOG)

ProcessOldGog ==
    /\ pc = "old_gog"
    /\ \/ Built(process_gog_bonds(raw, trade_date, OLD_GOG, "GOG_BOND"), "tbills")
       \/ Raise(OLD_GOG)

ProcessTbills ==
    /\ pc = "tbills"
    /\ \/ Built(process_tbills(raw, trade_date), "corporate")
       \/ Raise(TBILLS)

ProcessCorporate ==
    /\ pc = "corporate"
    /\ \/ Built(process_corporate(raw, trade_date), "curve")
       \/ Raise(CORPORATE)

BuildYieldCurve ==
    /\ pc = "curve"
    /\ \/ IF BuildYieldCurveRaises(raw, trade_date, all_metrics)
          THEN Raise("TypeError")
          ELSE /\ curve_points' = build_yield_curve(raw, trade_date, all_metrics)
               /\ pc' = "spreads"
               /\ UNCHANGED <<raw, silver_vars, probe_vars, count_vars, calls, trade_date,
                              all_metrics, spread_alerts, volume_alerts, summary,
                              outcome, failed, query_failed, snap>>
       \/ Raise("curve_maturities")

CalculateCorporateSpreads ==
    /\ pc = "spreads"
    /\ \/ IF SpreadsRaise(raw, all_metrics)
          THEN Raise("TypeError")
          ELSE LET res == calculate_corporate_spreads(raw, all_metrics, curve_points)
               IN  /\ all_metrics' = res.metrics
                   /\ spread_alerts' = res.alerts
                   /\ pc' = "spikes"
                   /\ UNCHANGED <<raw, silver_vars, probe_vars, count_vars, calls, trade_date,
                                  curve_points, volume_alerts, summary, outcome, failed,
                                  query_failed, snap>>
       \/ Raise("corporate_maturities")

\* The history queries are inside a try: one that raises is logged and the loop
\* goes on.
DetectVolumeSpikes ==
    /\ pc = "spikes"
    /\ \E raising \in SUBSET {i \in DOMAIN all_metrics : ~IsStale(all_metrics[i])} :
          LET res == detect_volume_spikes(security_metrics, trade_date, all_metrics, raising)
          IN  /\ all_metrics' = res.metrics
              /\ volume_alerts' = res.alerts
              /\ query_failed' = raising
    /\ pc' = "summary"
    /\ UNCHANGED <<raw, silver_vars, probe_vars, count_vars, calls, trade_date, curve_points,
                   spread_alerts, summary, outcome, failed, snap>>

BuildDailySummary ==
    /\ pc = "summary"
    /\ summary' = build_daily_summary(trade_date, all_metrics, curve_points)
    /\ pc' = "upsert_metrics"
    /\ UNCHANGED <<raw, silver_vars, probe_vars, count_vars, calls, trade_date, all_metrics,
                   curve_points, spread_alerts, volume_alerts, outcome, failed,
                   query_failed, snap>>

\* A write step that issues its call with the empty collection, which the
\* source does not do: the step the no-call-on-empty property must tell from
\* the real one.
CallAnyway(next) ==
    /\ pc' = next
    /\ calls' = Append(calls, IF pc = "upsert_metrics" THEN "security_metrics"
                              ELSE "yield_curve_points")
    /\ UNCHANGED <<raw, silver_vars, local_vars, probe_vars, count_vars, trade_date,
                   outcome, failed, query_failed, snap>>

\* A write step that is skipped: `if all_metrics:` and the like.
Skip(next) ==
    /\ pc' = next
    /\ UNCHANGED <<raw, silver_vars, local_vars, probe_vars, count_vars, calls, trade_date,
                   outcome, failed, query_failed, snap>>

UpsertMetrics ==
    /\ pc = "upsert_metrics"
    /\ \/ /\ Len(all_metrics) = 0
          /\ Skip("upsert_curve")
       \/ /\ Len(all_metrics) > 0
          /\ security_metrics' = UpsertMetricsInto(security_metrics, all_metrics)
          /\ calls' = Append(calls, "security_metrics")
          /\ pc' = "upsert_curve"
          /\ UNCHANGED <<raw, yield_curve_points, daily_market_summary, market_alerts,
                         local_vars, probe_vars, count_vars, trade_date, outcome, failed,
                         query_failed, snap>>
       \/ /\ Len(all_metrics) > 0
          /\ Raise("security_metrics")

UpsertCurve ==
    /\ pc = "upsert_curve"
    /\ \/ /\ Len(curve_points) = 0
          /\ Skip("upsert_summary")
       \/ /\ Len(curve_points) > 0
          /\ yield_curve_points' = UpsertCurveInto(yield_curve_points, curve_points)
          /\ calls' = Append(calls, "yield_curve_points")
          /\ pc' = "upsert_summary"
          /\ UNCHANGED <<raw, security_metrics, daily_market_summary, market_alerts,
                         local_vars, probe_vars, count_vars, trade_date, outcome, failed,
                         query_failed, snap>>
       \/ /\ Len(curve_points) > 0
          /\ Raise("yield_curve_points")

UpsertSummary ==
    /\ pc = "upsert_summary"
    /\ \/ /\ daily_market_summary' = UpsertSummaryInto(daily_market_summary, summary)
          /\ calls' = Append(calls, "daily_market_summary")
          /\ pc' = "insert_alerts"
          /\ UNCHANGED <<raw, security_metrics, yield_curve_points, market_alerts,
                         local_vars, probe_vars, count_vars, trade_date, outcome, failed,
                         query_failed, snap>>
       \/ Raise("daily_market_summary")

\* The run returns.
Complete(alerts, issued) ==
    LET streak == snap.date = trade_date /\ snap.unchanged
    IN  /\ market_alerts' = alerts
        /\ calls' = issued
        /\ pc' = "idle"
        /\ outcome' = "complete"
        /\ snap' = [date |-> trade_date,
                    unchanged |-> TRUE,
                    clean |-> query_failed = {} /\ (streak => snap.clean),
                    times |-> IF streak THEN snap.times + 1 ELSE 1,
                    base |-> IF streak THEN snap.base ELSE Len(market_alerts),
                    rows |-> DerivedRows(security_metrics, yield_curve_points,
                                         daily_market_summary, trade_date)]
        /\ UNCHANGED <<raw, security_metrics, yield_curve_points, daily_market_summary,
                       local_vars, probe_vars, count_vars, trade_date, failed,
                       query_failed>>

InsertAlerts ==
    /\ pc = "insert_alerts"
    /\ \/ /\ Len(AllAlerts(spread_alerts, volume_alerts)) = 0
          /\ Complete(market_alerts, calls)
       \/ /\ Len(AllAlerts(spread_alerts, volume_alerts)) > 0
          /\ Complete(market_alerts \o AllAlerts(spread_alerts, volume_alerts),
                      Append(calls, "market_alerts"))
       \/ /\ Len(AllAlerts(spread_alerts, volume_alerts)) > 0
          /\ Raise("market_alerts")

RunDates == {TradeDate}

Next ==
    \/ \E t \in Tables : \E isin \in IsinsOf(t), values \in ValuesOf(t) :
          Ingest(t, values, TradeDate, isin)
    \/ \E d \in RunDates : StartRun(d)
    \/ ProcessNewGog
    \/ ProcessOldGog
    \/ ProcessTbills
    \/ ProcessCorporate
    \/ BuildYieldCurve
    \/ CalculateCorporateSpreads
    \/ DetectVolumeSpikes
    \/ BuildDailySummary
    \/ UpsertMetrics
    \/ UpsertCurve
    \/ UpsertSummary
    \/ InsertAlerts

Spec == Init /\ [][Next]_vars

(***************************************************************************)
(* Properties of the pipeline (specification Spec).                         *)
(***************************************************************************)
\* The step on which a run returns, as the second or later completed run for
\* its date with the raw tables unchanged since the run before.
RepeatCompletes ==
    /\ pc = "insert_alerts"
    /\ outcome' = "complete"
    /\ snap.date = trade_date
    /\ snap.unchanged

C2_BatchKeysDistinct ==
    pc = "upsert_metrics" =>
        \A i, j \in DOMAIN all_metrics :
            (/\ all_metrics[i]["date"] = all_metrics[j]["date"]
             /\ all_metrics[i]["isin"] = all_metrics[j]["isin"]) => i = j

\* C3: no exception leaves run_quant_engine.
C3_NoExceptionPropagates == outcome # "exception"

\* The (isin, security_type) pairs, in fetch order, of the rows of a raw table
\* for the run's date that the row predicate does not fail.
KeysOf(rows, security_type) ==
    [i \in DOMAIN rows |-> <<rows[i]["isin"], Str(security_type)>>]

GoodGogKeys(t) ==
    KeysOf(SelectSeq(SelectByDate(raw[t], trade_date), LAMBDA r : ~GogRowRaises(r)),
           "GOG_BOND")

GoodTbillKeys ==
    KeysOf(SelectSeq(SelectByDate(raw[TBILLS], trade_date), LAMBDA r : ~TbillRowRaises(r)),
           "TBILL")

GoodCorporateKeys ==
    KeysOf(SelectSeq(SelectByDate(raw[CORPORATE], trade_date),
                     LAMBDA r : ~CorporateRowRaises(r)),
           "CORPORATE")

\* C4: when the four builders have returned, all_metrics holds exactly one
\* metric for every fetched row whose processing did not fail, in fetch order
\* table after table, and none for a failing row; a table with no rows for
\* the date adds nothing.
C4_BuildersSkipFailingRows ==
    pc = "curve" =>
        [i \in DOMAIN all_metrics |->
            <<all_metrics[i]["isin"], all_metrics[i]["security_type"]>>]
        = GoodGogKeys(NEW_GOG) \o GoodGogKeys(OLD_GOG) \o GoodTbillKeys \o GoodCorporateKeys

\* The builders returned on a new-GOG table whose first row for the date
\* fails and whose second row does not, with no T-bill row for the date.
C4_Witness ==
    /\ pc = "curve"
    /\ \E x, y \in raw[NEW_GOG] :
          /\ x["date"] = Num(trade_date) /\ y["date"] = Num(trade_date)
          /\ RowRank(x) < RowRank(y)
          /\ GogRowRaises(x) /\ ~GogRowRaises(y)
    /\ raw[TBILLS] = {}
    /\ Len(all_metrics) = 1

\* What detect_volume_spikes returns on the same metrics when no query raises.
NoFailureSpikes == detect_volume_spikes(security_metrics, trade_date, all_metrics, {})

\* The positions of the metrics whose query did not raise and that no-failure
\* detection flags as a spike, in loop order.
UnfailedSpikes ==
    SelectSeq([i \in DOMAIN all_metrics |-> i],
              LAMBDA i : /\ i \notin query_failed
                         /\ Get(NoFailureSpikes.metrics[i], "volume_spike_flag") = Bool(TRUE))

\* C5: when detect_volume_spikes has returned, every metric whose history
\* query did not raise is as it would be had no query raised (liquidity_flag,
\* volume_avg_30d, volume_spike_flag), the alerts returned are those of these
\* metrics in loop order, and a metric whose query raised has liquidity_flag
\* ACTIVE and neither volume_avg_30d nor volume_spike_flag.
C5_QueryFailureIsLocal ==
    pc = "summary" =>
        /\ \A i \in DOMAIN all_metrics :
              IF i \in query_failed
              THEN /\ Get(all_metrics[i], "liquidity_flag") = Str("ACTIVE")
                   /\ Get(all_metrics[i], "volume_avg_30d") = None
                   /\ Get(all_metrics[i], "volume_spike_flag") = None
              ELSE all_metrics[i] = NoFailureSpikes.metrics[i]
        /\ [k \in DOMAIN volume_alerts |-> volume_alerts[k]["isin"]]
           = [k \in DOMAIN UnfailedSpikes |-> all_metrics[UnfailedSpikes[k]]["isin"]]
        /\ \A k \in DOMAIN volume_alerts :
              /\ volume_alerts[k]["alert_type"] = Str("VOLUME_SPIKE")
              /\ volume_alerts[k]["severity"] = Str("WARNING")

\* The query of the first metric raised; the second metric, of another ISIN,
\* still got its average and its flag, and its alert was returned.
C5_Witness ==
    /\ pc = "summary"
    /\ query_failed = {1}
    /\ Len(all_metrics) = 2
    /\ all_metrics[1]["isin"] # all_metrics[2]["isin"]
    /\ IsNum(Get(all_metrics[2], "volume_avg_30d"))
    /\ Get(all_metrics[2], "volume_spike_flag") = Bool(TRUE)
    /\ Len(volume_alerts) = 1

\* The alerts stored since the first of the completed runs that snap counts.
AppendedAlerts == SubSeq(market_alerts, snap.base + 1, Len(market_alerts))

\* market_alerts is the concatenation of snap.times equal batches.
EqualBatches ==
    \E len \in 0..Len(AppendedAlerts) :
        /\ Len(AppendedAlerts) = len * snap.times
        /\ \A k \in DOMAIN AppendedAlerts :
              AppendedAlerts[k] = AppendedAlerts[((k - 1) % len) + 1]

\* A step of the store appends to market_alerts or leaves it alone, and the
\* step on which a run returns appends that run's spread alerts followed by
\* its volume alerts.
AlertsAppendOnly ==
    [][IF pc = "insert_alerts" /\ outcome' = "complete"
       THEN market_alerts' = market_alerts \o spread_alerts \o volume_alerts
       ELSE market_alerts' = market_alerts]_vars

SameKey(r, q, keys) == \A key \in keys : r[key] = q[key]

\* The records of a batch that a last-writer-wins upsert leaves stored: for
\* each key the last record of that key.
LastOfKey(records, keys) ==
    {records[i] : i \in {j \in DOMAIN records :
                           \A k \in DOMAIN records :
                               (k > j) => ~SameKey(records[j], records[k], keys)}}

\* The silver rows the run just completed produced for its date.
ProducedRows ==
    [metrics |-> LastOfKey(NormalizedMetrics(all_metrics), METRIC_CONFLICT),
     curve |-> LastOfKey(curve_points, CURVE_CONFLICT),
     summary |-> {summary}]

\* C7 as stated: when a run for date D has completed, the stored
\* SecurityMetric, YieldCurvePoint and DailySummary rows of D are exactly the
\* rows that run produced.
C7_StoredRowsAreTheRuns ==
    outcome = "complete" =>
        DerivedRows(security_metrics, yield_curve_points, daily_market_summary, trade_date)
        = ProducedRows

\* C7, amended: when a run for date D has completed, every row it produced is
\* stored with this run's values, one row per key, and the DailySummary row of
\* D is this run's; a stored metric or curve row is never deleted, and it
\* changes only in the upsert of a batch that holds its key.
C7_ProducedRowsOverwriteOthersStay ==
    /\ [](outcome = "complete" =>
            /\ ProducedRows.metrics \subseteq security_metrics
            /\ ProducedRows.curve \subseteq yield_curve_points
            /\ {r \in daily_market_summary : r["date"] = Num(trade_date)} = {summary}
            /\ \A r, q \in security_metrics : SameKey(r, q, METRIC_CONFLICT) => r = q
            /\ \A r, q \in yield_curve_points : SameKey(r, q, CURVE_CONFLICT) => r = q)
    /\ [][/\ \A r \in security_metrics :
                \/ r \in security_metrics'
                \/ /\ pc = "upsert_metrics"
                   /\ \E q \in security_metrics' :
                         /\ SameKey(r, q, METRIC_CONFLICT)
                         /\ q \in Range(NormalizedMetrics(all_metrics))
          /\ \A r \in yield_curve_points :
                \/ r \in yield_curve_points'
                \/ /\ pc = "upsert_curve"
                   /\ \E q \in yield_curve_points' :
                         /\ SameKey(r, q, CURVE_CONFLICT)
                         /\ q \in Range(curve_points)]_vars

\* A second run for the date completed after a raw row changed: it stored
\* its metric over the first run's, and it produced no curve point for a
\* maturity bucket the first run had stored, whose point is still there.
C7_Witness ==
    /\ outcome = "complete"
    /\ snap.times = 1
    /\ Len(all_metrics) > 0
    /\ ProducedRows.metrics \subseteq security_metrics
    /\ \E p \in yield_curve_points :
          /\ p["date"] = Num(trade_date)
          /\ \A i \in DOMAIN curve_points :
                curve_points[i]["maturity_bucket"] # p["maturity_bucket"]

\* The spread alerts of the run that name the ISIN of metric m.
SpreadAlertsOf(m) == {k \in DOMAIN spread_alerts : spread_alerts[k]["isin"] = m["isin"]}

IsCorporate(m) == m["security_type"] = Str("CORPORATE")

\* C8: when calculate_corporate_spreads has returned, a corporate metric has
\* one SPREAD_WIDENING alert of severity INFO if a benchmark was found for it
\* and spread_vs_govt = ytm - benchmark_yield is above 5.0 (50000 ticks of
\* 0.0001), and none otherwise, in particular none at exactly 5.0; no other
\* alert is returned.
C8_SpreadAlertIffAboveFive ==
    pc = "spikes" =>
        /\ \A i \in DOMAIN all_metrics :
              IsCorporate(all_metrics[i]) =>
                 /\ IsNum(Get(all_metrics[i], "benchmark_yield")) =>
                       Get(all_metrics[i], "spread_vs_govt")
                       = Num(all_metrics[i]["ytm"].v - all_metrics[i]["benchmark_yield"].v)
                 /\ Cardinality(SpreadAlertsOf(all_metrics[i]))
                    = IF /\ IsNum(Get(all_metrics[i], "benchmark_yield"))
                         /\ Get(all_metrics[i], "spread_vs_govt").v > 5 * 10000
                      THEN 1 ELSE 0
        /\ \A k \in DOMAIN spread_alerts :
              /\ spread_alerts[k]["alert_type"] = Str("SPREAD_WIDENING")
              /\ spread_alerts[k]["severity"] = Str("INFO")
              /\ \E i \in DOMAIN all_metrics :
                    IsCorporate(all_metrics[i]) /\ k \in SpreadAlertsOf(all_metrics[i])

\* A corporate metric at 19.5 against a benchmark of 14.5: the spread is
\* exactly 5.0 and no alert was returned.
C8_Witness ==
    /\ pc = "spikes"
    /\ \E i \in DOMAIN all_metrics :
          /\ IsCorporate(all_metrics[i])
          /\ Get(all_metrics[i], "benchmark_yield") = Num(145000)
          /\ Get(all_metrics[i], "spread_vs_govt") = Num(50000)
    /\ Len(spread_alerts) = 0

\* The metrics of the run for which a historical average was computed.
WithAverage == {i \in DOMAIN all_metrics : IsNum(Get(all_metrics[i], "volume_avg_30d"))}

\* Today's volume is at least 3.0 times a positive average (volume_avg_30d is
\* held in hundredths).
AtLeastThreeTimes(m) ==
    /\ m["volume_avg_30d"].v > 0
    /\ m["volume"].v * 100 >= 3 * m["volume_avg_30d"].v

\* The threshold part of C9: a metric with a computed average has
\* volume_spike_flag true when the average is positive and today's volume is
\* at least 3.0 times the average, and false otherwise, and the run returned
\* one VOLUME_SPIKE alert of severity WARNING per flagged metric.
SpikeFlagFollowsThreshold ==
    pc = "summary" =>
        /\ \A i \in WithAverage :
              Get(all_metrics[i], "volume_spike_flag") = Bool(AtLeastThreeTimes(all_metrics[i]))
        /\ Len(volume_alerts)
           = Cardinality({i \in DOMAIN all_metrics :
                            Get(all_metrics[i], "volume_spike_flag") = Bool(TRUE)})
        /\ \A k \in DOMAIN volume_alerts :
              /\ volume_alerts[k]["alert_type"] = Str("VOLUME_SPIKE")
              /\ volume_alerts[k]["severity"] = Str("WARNING")

\* C9: the threshold part, and a metric has volume_spike_flag true exactly
\* when the run returned a VOLUME_SPIKE alert for its ISIN.
C9_SpikeFlagIffAlertForIsin ==
    /\ SpikeFlagFollowsThreshold
    /\ pc = "summary" =>
          \A i \in DOMAIN all_metrics :
              (Get(all_metrics[i], "volume_spike_flag") = Bool(TRUE))
              <=> (\E k \in DOMAIN volume_alerts :
                      volume_alerts[k]["isin"] = all_metrics[i]["isin"])

\* The 21 keys of the fixed field set.
FieldSet == Range(METRIC_KEYS)

\* Stored row r is metric m with every key of the field set that m lacks
\* filled in with None, and every value of m kept.
IsNormalized(r, m) ==
    /\ DOMAIN r = FieldSet
    /\ DOMAIN m \subseteq FieldSet
    /\ \A key \in DOMAIN m : r[key] = m[key]
    /\ \A key \in FieldSet \ DOMAIN m : r[key] = None

\* C11: METRIC_KEYS names 21 distinct keys; every row of security_metrics
\* has exactly these keys; and every row a step of a run puts into the table
\* is one of the run's metrics (of any security type, touched or not by the
\* spread and spike steps) with the keys it lacks set to None and with the
\* value of every key it has unchanged.
C11_StoredMetricsHaveTheFieldSet ==
    /\ [](/\ Cardinality(FieldSet) = 21
          /\ Len(METRIC_KEYS) = 21
          /\ \A r \in security_metrics : DOMAIN r = FieldSet)
    /\ [][\A r \in security_metrics' \ security_metrics :
              /\ pc = "upsert_metrics"
              /\ \E i \in DOMAIN all_metrics : IsNormalized(r, all_metrics[i])]_vars

\* The metrics upsert has stored a corporate row that the spread step and the
\* spike step both touched, with the T-bill-only and never-set keys at None,
\* next to a GOG row that the spread step did not touch.
C11_Witness ==
    /\ pc = "upsert_curve"
    /\ \E r \in security_metrics :
          /\ r["date"] = Num(trade_date)
          /\ r["security_type"] = Str("CORPORATE")
          /\ IsNum(r["benchmark_yield"])
          /\ r["volume_spike_flag"].k = "bool"
          /\ r["discount_yield"] = None
          /\ r["turnover_ratio"] = None
          /\ r["hl_spread"] = None
    /\ \E r \in security_metrics :
          /\ r["date"] = Num(trade_date)
          /\ r["security_type"] = Str("GOG_BOND")
          /\ r["benchmark_yield"] = None
          /\ IsNum(r["ytm"])

\* The days-to-maturity the corporate sheet of the run's date gives for the
\* ISIN of metric m, None when the date has no row of that ISIN.
DaysOnTradeDate(m) ==
    LET rows == SelectByDate(raw[CORPORATE], trade_date)
    IN  DictGet(rows, Len(rows), m["isin"], "days_to_maturity")

\* The curve points of the run in the bucket that holds days.
PointsOfBucket(days) ==
    {j \in DOMAIN curve_points :
        curve_points[j]["maturity_bucket"] = Str(get_maturity_bucket(days.v))}

\* C12: when calculate_corporate_spreads has returned, every corporate metric
\* with a known ytm has, if the curve holds a point for the bucket of the
\* bond's days-to-maturity on the run's date, that point's yield as
\* benchmark_yield and ytm - benchmark_yield as spread_vs_govt, and otherwise
\* neither field and no alert, whatever rows the corporate table holds for
\* other dates.
C12_BenchmarkOfTheBondsBucket ==
    pc = "spikes" =>
        \A i \in DOMAIN all_metrics :
            (IsCorporate(all_metrics[i]) /\ Truthy(Get(all_metrics[i], "ytm"))
             /\ IsNum(DaysOnTradeDate(all_metrics[i]))) =>
                IF PointsOfBucket(DaysOnTradeDate(all_metrics[i])) # {}
                THEN \A j \in PointsOfBucket(DaysOnTradeDate(all_metrics[i])) :
                        /\ Get(all_metrics[i], "benchmark_yield") = curve_points[j]["yield"]
                        /\ Get(all_metrics[i], "spread_vs_govt")
                           = Num(all_metrics[i]["ytm"].v - curve_points[j]["yield"].v)
                ELSE /\ Get(all_metrics[i], "benchmark_yield") = None
                     /\ Get(all_metrics[i], "spread_vs_govt") = None
                     /\ SpreadAlertsOf(all_metrics[i]) = {}

\* The same property on a corporate table that holds rows of the run's date
\* only.
C12_BenchmarkOfTheBondsBucketOneDate ==
    (\A r \in raw[CORPORATE] : r["date"] = Num(trade_date))
        => C12_BenchmarkOfTheBondsBucket

\* The raw rows the metrics of the run were built from, metric by metric: the
\* rows of the date that did not fail, table after table.
SourceRows ==
    SelectSeq(SelectByDate(raw[NEW_GOG], trade_date), LAMBDA r : ~GogRowRaises(r))
    \o SelectSeq(SelectByDate(raw[OLD_GOG], trade_date), LAMBDA r : ~GogRowRaises(r))
    \o SelectSeq(SelectByDate(raw[TBILLS], trade_date), LAMBDA r : ~TbillRowRaises(r))
    \o SelectSeq(SelectByDate(raw[CORPORATE], trade_date), LAMBDA r : ~CorporateRowRaises(r))

\* The buckets of the fixed table and the open last one.
AllBuckets == {MATURITY_BUCKETS[i][3] : i \in DOMAIN MATURITY_BUCKETS} \cup {"20Y+"}

\* The GOG_BOND and TBILL metrics with a known ytm whose days-to-maturity, an
\* integer >= 0, lies in bucket b.
Contributors(b) ==
    {i \in DOMAIN all_metrics :
        /\ all_metrics[i]["security_type"].s \in {"GOG_BOND", "TBILL"}
        /\ IsNum(Get(all_metrics[i], "ytm"))
        /\ IsNum(Get(SourceRows[i], "days_to_maturity"))
        /\ Get(SourceRows[i], "days_to_maturity").v >= 0
        /\ get_maturity_bucket(Get(SourceRows[i], "days_to_maturity").v) = b}

RECURSIVE SumDays(_)
SumDays(S) ==
    IF S = {} THEN 0
    ELSE LET i == CHOOSE i \in S : TRUE
         IN  SourceRows[i]["days_to_maturity"].v + SumDays(S \ {i})

RECURSIVE SumYtm(_)
SumYtm(S) ==
    IF S = {} THEN 0
    ELSE LET i == CHOOSE i \in S : TRUE
         IN  all_metrics[i]["ytm"].v + SumYtm(S \ {i})

PointsIn(b) == {j \in DOMAIN curve_points : curve_points[j]["maturity_bucket"] = Str(b)}

\* The curve has, for bucket b, one GOG point with the truncated mean of the
\* contributors' days and the mean (to 4 decimals) of their ytm, or no point
\* when b has no contributor.
BucketPointIsTheMean(b) ==
    IF Contributors(b) = {} THEN PointsIn(b) = {}
    ELSE /\ Cardinality(PointsIn(b)) = 1
         /\ \A j \in PointsIn(b) :
               /\ curve_points[j]["curve_type"] = Str("GOG")
               /\ curve_points[j]["date"] = Num(trade_date)
               /\ curve_points[j]["maturity_days"]
                  = Num(SumDays(Contributors(b)) \div Cardinality(Contributors(b)))
               /\ curve_points[j]["yield"]
                  = Num(RoundDiv(SumYtm(Contributors(b)), Cardinality(Contributors(b)), 0))

\* C13: when build_yield_curve has returned, the curve holds exactly one
\* point, of curve_type GOG, for every bucket that holds the days-to-maturity
\* (an integer >= 0; 0 lies in 91D) of a GOG_BOND or TBILL metric with a known
\* ytm, and none for any other bucket; the point's maturity_days is the
\* truncated mean of the contributing days and its yield the mean of the
\* contributing ytm; no corporate metric contributes.
C13_OnePointPerPopulatedBucket ==
    pc = "spreads" =>
        /\ Len(SourceRows) = Len(all_metrics)
        /\ \A j \in DOMAIN curve_points : curve_points[j]["maturity_bucket"].s \in AllBuckets
        /\ \A b \in AllBuckets : BucketPointIsTheMean(b)

\* No ISIN is listed twice among the GOG and T-bill rows of the date, and
\* none of these rows has 0 days to maturity.
DistinctIsinsPositiveDays ==
    \A i, j \in DOMAIN CurveDaysRows(raw, trade_date) :
        /\ (CurveDaysRows(raw, trade_date)[i]["isin"] = CurveDaysRows(raw, trade_date)[j]["isin"])
              => i = j
        /\ Get(CurveDaysRows(raw, trade_date)[i], "days_to_maturity") # Num(0)

\* The same property for dates on which every listed security has its own
\* ISIN and at least one day to maturity.
C13_OnePointPerPopulatedBucketDistinctPositive ==
    DistinctIsinsPositiveDays => C13_OnePointPerPopulatedBucket

\* The stored metric rows of the ISIN of m with a date other than the run's
\* (fewer than HISTORY_LIMIT in this model, so all of them are among the most
\* recent 30), and those of them that have a volume, 0 included.
OtherDateRows(m) ==
    {r \in security_metrics : r["isin"] = m["isin"] /\ r["date"] # Num(trade_date)}

RowsWithVolume(m) == {r \in OtherDateRows(m) : IsNum(r["volume"])}

RECURSIVE SumVolume(_)
SumVolume(rows) ==
    IF rows = {} THEN 0
    ELSE LET r == CHOOSE r \in rows : TRUE
         IN  r["volume"].v + SumVolume(rows \ {r})

\* The metrics the detector queried the history for without a failure.
Queried == {i \in DOMAIN all_metrics : ~IsStale(all_metrics[i]) /\ i \notin query_failed}

\* volume_avg_30d of m (in hundredths) is the mean of the volumes of the
\* other-date rows that have one; with no other-date row, m has neither
\* volume_avg_30d nor volume_spike_flag and no alert names its ISIN.
AverageOfHistory(m) ==
    /\ RowsWithVolume(m) # {} =>
          Get(m, "volume_avg_30d")
          = Num(RoundDiv(SumVolume(RowsWithVolume(m)), Cardinality(RowsWithVolume(m)), 2))
    /\ OtherDateRows(m) = {} =>
          /\ Get(m, "volume_avg_30d") = None
          /\ Get(m, "volume_spike_flag") = None
          /\ \A k \in DOMAIN volume_alerts : volume_alerts[k]["isin"] # m["isin"]

\* C14: when detect_volume_spikes has returned, every metric whose history
\* was queried has as volume_avg_30d the mean of the non-missing volumes
\* (a volume of 0 counts) of the stored rows of its ISIN with another date,
\* rows of the run's date never counting; with no such row the average and
\* the flag stay unset and no alert is emitted.
C14_AverageOfOtherDateVolumes ==
    pc = "summary" =>
        \A i \in Queried :
            /\ Cardinality(OtherDateRows(all_metrics[i])) <= HISTORY_LIMIT
            /\ AverageOfHistory(all_metrics[i])

\* The same property on a store in which no row of another date has volume 0.
C14_AverageOfOtherDateVolumesNoZero ==
    (\A r \in security_metrics : r["date"] = Num(trade_date) \/ r["volume"] # Num(0))
        => C14_AverageOfOtherDateVolumes

\* Today's volume of m is a number above 0.
TradedToday(m) == IsNum(Get(m, "volume")) /\ Get(m, "volume").v > 0

\* liquidity_flag of m is ACTIVE if m traded today and STALE if not; a STALE m
\* has neither volume_avg_30d nor volume_spike_flag.
FlagFollowsVolume(m) ==
    /\ Get(m, "liquidity_flag") = IF TradedToday(m) THEN Str("ACTIVE") ELSE Str("STALE")
    /\ ~TradedToday(m) =>
          /\ Get(m, "volume_avg_30d") = None
          /\ Get(m, "volume_spike_flag") = None

\* C15: when detect_volume_spikes has returned, every metric has
\* liquidity_flag ACTIVE if today's volume is above 0 and STALE if it is 0 or
\* absent; a STALE metric has neither volume_avg_30d nor volume_spike_flag,
\* no history query was issued for it, and no VOLUME_SPIKE alert of the run
\* names its ISIN.
C15_StaleMetricsAreSkipped ==
    pc = "summary" =>
        \A i \in DOMAIN all_metrics :
            /\ FlagFollowsVolume(all_metrics[i])
            /\ ~TradedToday(all_metrics[i]) =>
                  /\ i \notin query_failed
                  /\ \A k \in DOMAIN volume_alerts :
                        volume_alerts[k]["isin"] # all_metrics[i]["isin"]

\* The same property for runs whose metrics all have different ISINs.
C15_StaleMetricsAreSkippedDistinctIsins ==
    (\A i, j \in DOMAIN all_metrics :
        (all_metrics[i]["isin"] = all_metrics[j]["isin"]) => i = j)
        => C15_StaleMetricsAreSkipped

\* The curve points of the run with the smallest and with the largest
\* maturity_days.
Shortest == {i \in DOMAIN curve_points :
               \A j \in DOMAIN curve_points :
                   curve_points[i]["maturity_days"].v <= curve_points[j]["maturity_days"].v}

Longest == {i \in DOMAIN curve_points :
              \A j \in DOMAIN curve_points :
                  curve_points[i]["maturity_days"].v >= curve_points[j]["maturity_days"].v}

\* The shape the documentation gives for a slope (in hundredths of a point).
ShapeOfSlope(slope) ==
    IF slope < -50 THEN "INVERTED" ELSE IF slope < 50 THEN "FLAT" ELSE "NORMAL"

\* curve_slope of the summary is the yield of the longest point minus that of
\* the shortest (to 2 decimals), 0 below two points.
SlopeIsLongMinusShort ==
    IF Len(curve_points) < 2 THEN summary["curve_slope"] = Num(0)
    ELSE \E i \in Shortest, j \in Longest :
            summary["curve_slope"]
            = Num(Round2OfTicks(curve_points[j]["yield"].v - curve_points[i]["yield"].v))

\* C16: when build_daily_summary has returned, curve_slope is the yield of
\* the point with the largest maturity_days minus that of the point with the
\* smallest, and 0 with fewer than two points; curve_shape is INVERTED for
\* curve_slope < -0.5, FLAT for -0.5 <= curve_slope < 0.5 and NORMAL
\* otherwise, whatever the number of curve points.
C16_ShapeFollowsSlope ==
    pc = "upsert_metrics" =>
        /\ SlopeIsLongMinusShort
        /\ summary["curve_shape"] = Str(ShapeOfSlope(summary["curve_slope"].v))

\* The same property for curves of two points or more.
C16_ShapeFollowsSlopeTwoPoints ==
    Len(curve_points) >= 2 => C16_ShapeFollowsSlope

\* The steps of a run in the order of the documentation.
StepOrder ==
    <<"new_gog", "old_gog", "tbills", "corporate", "curve", "spreads", "spikes",
      "summary", "upsert_metrics", "upsert_curve", "upsert_summary", "insert_alerts">>

ComputeSteps == {StepOrder[k] : k \in 1..8}

\* A step moves a run from one position to the next of the fixed order, starts
\* a run at the first position, or ends it; a run returns normally from the
\* last position only.
StepsInFixedOrder ==
    [][/\ pc' # pc =>
            \/ pc = "idle" /\ pc' = StepOrder[1]
            \/ pc # "idle" /\ pc' = "idle"
            \/ \E k \in 1..(Len(StepOrder) - 1) : pc = StepOrder[k] /\ pc' = StepOrder[k + 1]
       /\ (pc # "idle" /\ outcome' = "complete") => pc = StepOrder[Len(StepOrder)]]_vars

\* Within a run each result is computed at its own step: the metrics by the
\* four builders (then amended by the spread and the spike step), the curve,
\* the spread alerts, the volume alerts and the summary each at one step.
ResultsAtTheirSteps ==
    [][(pc # "idle" /\ pc' # "idle") =>
          /\ all_metrics' # all_metrics =>
                pc \in {"new_gog", "old_gog", "tbills", "corporate", "spreads", "spikes"}
          /\ Len(all_metrics') # Len(all_metrics) =>
                pc \in {"new_gog", "old_gog", "tbills", "corporate"}
          /\ curve_points' # curve_points => pc = "curve"
          /\ spread_alerts' # spread_alerts => pc = "spreads"
          /\ volume_alerts' # volume_alerts => pc = "spikes"
          /\ summary' # summary => pc = "summary"]_vars

\* A silver table changes only at its own write step, and the write calls of
\* a run are issued one at a time in the order metrics, curve, summary,
\* alerts.
WritesAtTheirSteps ==
    [][/\ security_metrics' # security_metrics => pc = "upsert_metrics"
       /\ yield_curve_points' # yield_curve_points => pc = "upsert_curve"
       /\ daily_market_summary' # daily_market_summary => pc = "upsert_summary"
       /\ market_alerts' # market_alerts => pc = "insert_alerts"
       /\ (calls' # calls /\ pc # "idle") =>
             \E k \in DOMAIN WriteOrder :
                 /\ pc = StepOrder[8 + k]
                 /\ calls' = Append(calls, WriteOrder[k])]_vars

\* No write call has been issued while a run computes (so the history the
\* spike step reads holds no row of this run), and a run that has not failed
\* has issued a call for the metrics, the curve and the alerts exactly when
\* its write step was passed with a non-empty collection, and for the summary
\* whenever that step was passed.
CallsOnlyForNonEmpty ==
    /\ pc \in ComputeSteps \cup {"upsert_metrics"} => calls = << >>
    /\ (outcome # "exception" /\ pc \in {"upsert_curve", "upsert_summary", "insert_alerts", "idle"}) =>
          /\ "security_metrics" \in Range(calls) <=> Len(all_metrics) > 0
    /\ (outcome # "exception" /\ pc \in {"upsert_summary", "insert_alerts", "idle"}) =>
          /\ "yield_curve_points" \in Range(calls) <=> Len(curve_points) > 0
    /\ pc = "insert_alerts" => "daily_market_summary" \in Range(calls)
    /\ outcome = "complete" =>
          /\ "daily_market_summary" \in Range(calls)
          /\ "market_alerts" \in Range(calls)
              <=> Len(spread_alerts) + Len(volume_alerts) > 0

\* C17: a run goes through new-GOG, old-GOG, T-bill and corporate metrics,
\* curve, corporate spreads, volume spikes and summary in this order and only
\* then writes, in the order metrics, curve, summary, alerts; no write call is
\* issued and no silver table changes before the summary is built, so the
\* spike step reads no row written by the same run; and an empty metrics,
\* curve or alert collection causes no write call for its table.
C17_ComputeThenWriteInOrder ==
    /\ StepsInFixedOrder
    /\ ResultsAtTheirSteps
    /\ WritesAtTheirSteps
    /\ []CallsOnlyForNonEmpty

\* A run has returned after writing its metrics and its summary, in this
\* order, and issuing no call for its empty curve and its empty alert list.
C17_Witness ==
    /\ outcome = "complete"
    /\ pc = "idle"
    /\ calls = <<"security_metrics", "daily_market_summary">>
    /\ Len(all_metrics) > 0
    /\ Len(curve_points) = 0
    /\ Len(spread_alerts) + Len(volume_alerts) = 0

(***************************************************************************)
(* A second specification, for the pure function get_maturity_bucket: the   *)
(* days argument walks up from 0 and probe_out holds the bucket returned.    *)
(***************************************************************************)
ProbeSteps == {1, 365}

ProbeBucket ==
    \E step \in ProbeSteps :
        /\ probe + step <= MaxDays
        /\ probe' = probe + step
        /\ probe_out' = get_maturity_bucket(probe + step)
        /\ UNCHANGED <<raw, silver_vars, local_vars, count_vars, pc, trade_date,
                       outcome, failed, query_failed, calls, snap>>

InitBucket == Init /\ raw = EmptyRaw

SpecBucket == InitBucket /\ [][ProbeBucket]_vars

\* The fixed table of the documentation, with the open last bucket.
BucketTable ==
    << <<0, 91, "91D">>, <<92, 182, "182D">>, <<183, 365, "1Y">>,
       <<366, 730, "2Y">>, <<731, 1095, "3Y">>, <<1096, 1825, "5Y">>,
       <<1826, 3650, "10Y">>, <<3651, 7300, "20Y">>, <<7301, MaxDays + 365, "20Y+">> >>

BucketRank(bucket) == CHOOSE i \in DOMAIN BucketTable : BucketTable[i][3] = bucket

TableBuckets(days) ==
    {i \in DOMAIN BucketTable : BucketTable[i][1] <= days /\ days <= BucketTable[i][2]}

\* C10: for every integer days >= 0, exactly one range of the fixed table
\* holds days and get_maturity_bucket returns that range's bucket (so 91 gives
\* 91D and 92 gives 182D), and a larger days never gives an earlier bucket.
C10_BucketTotalMonotone ==
    /\ [](probe >= 0 =>
            /\ Cardinality(TableBuckets(probe)) = 1
            /\ \A i \in TableBuckets(probe) : probe_out = BucketTable[i][3]
            /\ (probe = 91 => probe_out = "91D")
            /\ (probe = 92 => probe_out = "182D"))
    /\ [][probe' >= probe => BucketRank(probe_out') >= BucketRank(probe_out)]_vars

\* The walk is at a boundary: 92 days, in the second bucket.
C10_Witness == probe = 92 /\ probe_out = "182D"

=============================================================================
